---- MODULE Spec2Model ----
(***************************************************************************)
(* A model of smt-toggle: the SMT control channel (src/src/smt.rs), the    *)
(* application state machine (src/src/app.rs) and the tray bridge          *)
(* (src/src/tray.rs), with the task executor, the windowing runtime and    *)
(* the kernel control file as their environment.                           *)
(***************************************************************************)
EXTENDS Integers, Sequences, FiniteSets, TLC

(***************************************************************************)
(* Bounds of the model.                                                    *)
(***************************************************************************)
\* inputs of the environment in one run: toggles, menu activations, windows
\* closed by the user, ticks of the 3 s timer and failed reads of the control
\* file
MaxInputs == 2
\* whitespace characters on each side of a parser input
MaxPad == 1
\* letters of a parser input spelled in upper case
MaxUpper == 1

VARIABLES
    \* struct App (app.rs:31-36)
    smt_status, is_toggling, error_message, window_id,
    \* the process: FALSE until std::process::exit (app.rs:159)
    exited,
    \* the kernel control file /sys/devices/system/cpu/smt/control (smt.rs:5)
    file,
    \* write tasks (app.rs:67-75) and read tasks (app.rs:82-91, 103-112,
    \* 123-132) handed to the executor and not yet handled by update
    writes, reads,
    \* the windowing runtime: open requests in progress, windows on screen,
    \* and its notifications to update, in arrival order
    opening, openWindows, winq, nextWindow,
    \* the tray: activations GTK has not dispatched yet, the MenuEvent
    \* channel (tray.rs:43) and the mpsc channel (main.rs:42)
    gtkPending, menuChan, trayChan,
    \* the next write task's identity, and the inputs made so far
    nextWrite, inputs,
    \* history: the write task whose failure error_message was last set from
    \* (0: none)
    errorTask,
    \* history: the blocking Control Channel calls that the thread owning
    \* App has made itself, outside any spawn_blocking task
    ownerCalls,
    \* history: the menu events the bridge thread has received, and the tray
    \* events update has handled, in order
    bridgeSeen, handledTray,
    \* the status parser on its own: the input drawn and the variant returned
    pin, pout

appVars   == <<smt_status, is_toggling, error_message, window_id>>
winVars   == <<opening, openWindows, winq, nextWindow>>
trayVars  == <<gtkPending, menuChan, trayChan>>
countVars == <<nextWrite, inputs>>
parseVars == <<pin, pout>>
vars == <<smt_status, is_toggling, error_message, window_id, exited, file,
          writes, reads, opening, openWindows, winq, nextWindow,
          gtkPending, menuChan, trayChan, nextWrite, inputs, errorTask,
          ownerCalls, bridgeSeen, handledTray, pin, pout>>

(***************************************************************************)
(* Strings are sequences of one-character strings.                         *)
(***************************************************************************)
S_on           == <<"o", "n">>
S_off          == <<"o", "f", "f">>
S_forceoff     == <<"f", "o", "r", "c", "e", "o", "f", "f">>
S_notsupported == <<"n", "o", "t", "s", "u", "p", "p", "o", "r", "t", "e", "d">>

\* Option<T>
None    == <<>>
Some(x) == <<x>>

(***************************************************************************)
(* smt.rs: SmtStatus and the status parser.                                *)
(***************************************************************************)
SmtStatus == {"On", "Off", "ForceOff", "NotSupported", "Unknown"}

is_enabled(s) == s = "On"

is_controllable(s) == s \in {"On", "Off"}

\* char::is_whitespace, on the characters of the model
IsWhitespace(c) == c \in {" ", "\n", "\t"}

RECURSIVE TrimStart(_)
TrimStart(s) ==
    IF s # <<>> /\ IsWhitespace(Head(s)) THEN TrimStart(Tail(s)) ELSE s

RECURSIVE TrimEnd(_)
TrimEnd(s) ==
    IF s # <<>> /\ IsWhitespace(s[Len(s)])
    THEN TrimEnd(SubSeq(s, 1, Len(s) - 1))
    ELSE s

\* str::trim
Trim(s) == TrimEnd(TrimStart(s))

\* impl From<&str> for SmtStatus
From_NoTrimStart(s) ==
    LET t == TrimEnd(s)
    IN  CASE t = S_on           -> "On"
          [] t = S_off          -> "Off"
          [] t = S_forceoff     -> "ForceOff"
          [] t = S_notsupported -> "NotSupported"
          [] OTHER              -> "Unknown"
From(s) ==
    LET t == Trim(s)
    IN  CASE t = S_on           -> "On"
          [] t = S_off          -> "Off"
          [] t = S_forceoff     -> "ForceOff"
          [] t = S_notsupported -> "NotSupported"
          [] OTHER              -> "Unknown"

(***************************************************************************)
(* The kernel control file.                                                *)
(***************************************************************************)
\* what a read of the control file returns: a newline-terminated token
KernelValue(token) == token \o <<"\n">>
KernelValues ==
    {KernelValue(S_on), KernelValue(S_off), KernelValue(S_forceoff),
     KernelValue(S_notsupported)}

\* read_smt_status().unwrap_or(SmtStatus::Unknown): ok is whether
\* fs::read_to_string succeeded
ReadStatusOrUnknown(ok, content) == IF ok THEN From(content) ELSE "Unknown"

(***************************************************************************)
(* smt.rs: set_smt_enabled, one step per system call.  A write task is a   *)
(* record: pc is the next step of its call, wrote lists what the call gave  *)
(* to fs::write and directOk is whether that write succeeded, nSpawn       *)
(* counts the helper processes it spawned, fed lists what it wrote to the  *)
(* helper's standard input, result is what it returned.                    *)
(***************************************************************************)
Pending     == [tag |-> "Pending", kind |-> "", msg |-> ""]
Ok          == [tag |-> "Ok", kind |-> "", msg |-> ""]
Err(k, m)   == [tag |-> "Err", kind |-> k, msg |-> m]

\* the io::Error values the call can return
PkexecFailed == Err("PermissionDenied", "Failed to set SMT status (pkexec failed)")
SpawnError   == Err("NotFound", "No such file or directory (os error 2)")
PipeError    == Err("BrokenPipe", "Broken pipe (os error 32)")
WaitError    == Err("Uncategorized", "No child processes (os error 10)")

\* let value = if enabled { "on" } else { "off" }
Token(enabled) == IF enabled THEN S_on ELSE S_off

NewWrite(id, enabled) ==
    [id |-> id, enabled |-> enabled, pc |-> "direct", wrote |-> <<>>,
     directOk |-> FALSE, nSpawn |-> 0, fed |-> <<>>, result |-> Pending]

\* if fs::write(SMT_CONTROL_PATH, value).is_ok() { return Ok(()); }
DirectStep_FallsThrough(t, ok) ==
    [t EXCEPT !.pc = "spawn", !.wrote = Append(@, Token(t.enabled)),
              !.directOk = ok]
DirectStep(t, ok) ==
    IF ok
    THEN [t EXCEPT !.pc = "done", !.wrote = Append(@, Token(t.enabled)),
                   !.directOk = ok, !.result = Ok]
    ELSE [t EXCEPT !.pc = "spawn", !.wrote = Append(@, Token(t.enabled)),
                   !.directOk = ok]

\* Command::new("pkexec")...spawn()?
SpawnStep(t, ok) ==
    IF ok
    THEN [t EXCEPT !.pc = "feed", !.nSpawn = @ + 1]
    ELSE [t EXCEPT !.pc = "done", !.nSpawn = @ + 1, !.result = SpawnError]

\* .stdin(Stdio::piped()): the spawned child always has a stdin handle
StdinPiped == TRUE

\* if let Some(stdin) = child.stdin.as_mut() { stdin.write_all(..)?; }
FeedStep(t, ok) ==
    IF StdinPiped
    THEN IF ok
         THEN [t EXCEPT !.pc = "wait", !.fed = Append(@, Token(t.enabled))]
         ELSE [t EXCEPT !.pc = "done", !.result = PipeError]
    ELSE [t EXCEPT !.pc = "wait"]

\* let status = child.wait()?; if status.success() { Ok(()) } else { Err(..) }
WaitStep(t, outcome) ==
    CASE outcome = "exit0"   -> [t EXCEPT !.pc = "done", !.result = Ok]
      [] outcome = "nonzero" -> [t EXCEPT !.pc = "done", !.result = PkexecFailed]
      [] OTHER               -> [t EXCEPT !.pc = "done", !.result = WaitError]

\* .map_err(|e| e.to_string()): the message, without the kind
ErrToString(e) == e.msg

Replace(set, old, new) == (set \ {old}) \cup {new}

(***************************************************************************)
(* App::new (app.rs:39-59): the status is read once, by App::new itself,  *)
(* the first window is requested and its identity recorded.  The tray      *)
(* channel is wired before the daemon starts (main.rs:42-48).              *)
(***************************************************************************)
FirstWindow == 1

Init ==
    /\ file \in KernelValues
    /\ \E ok \in BOOLEAN : smt_status = ReadStatusOrUnknown(ok, file)
    /\ is_toggling = FALSE
    /\ error_message = None
    /\ window_id = Some(FirstWindow)
    /\ exited = FALSE
    /\ writes = {}
    /\ reads = {}
    /\ opening = {FirstWindow}
    /\ openWindows = {}
    /\ winq = <<>>
    /\ nextWindow = FirstWindow + 1
    /\ gtkPending = <<>>
    /\ menuChan = <<>>
    /\ trayChan = <<>>
    /\ nextWrite = 1
    /\ inputs = 0
    /\ errorTask = 0
    /\ ownerCalls = {"read_smt_status"}
    /\ bridgeSeen = <<>>
    /\ handledTray = <<>>
    /\ pin = <<>>
    /\ pout = "none"

(***************************************************************************)
(* App::view (app.rs:180-223): the toggler is built for On and Off only,   *)
(* whatever is_toggling is, and publishes the position it is switched to.  *)
(***************************************************************************)
OfferToggle_AlsoForceOff(s) == s = "On" \/ s = "Off" \/ s = "ForceOff"
OfferToggle(s) == s = "On" \/ s = "Off"

\* a read task: result is what it delivers, failed is whether its
\* read_smt_status returned Err or its blocking task failed to join
NewRead(origin) == [origin |-> origin, result |-> "Pending", failed |-> FALSE]

(***************************************************************************)
(* App::update (app.rs:61-163): one operator per match arm, giving what    *)
(* the arm assigns and the task it returns.                                *)
(***************************************************************************)
\* Message::SmtToggled(enabled) => ...
update_SmtToggled_KeepsError(enabled) ==
    /\ is_toggling' = TRUE
    /\ error_message' = error_message
    /\ writes' = writes \cup {NewWrite(nextWrite, enabled)}
    /\ nextWrite' = nextWrite + 1
    /\ UNCHANGED <<smt_status, window_id, reads, errorTask, ownerCalls>>
update_SmtToggled(enabled) ==
    /\ is_toggling' = TRUE
    /\ error_message' = None
    /\ writes' = writes \cup {NewWrite(nextWrite, enabled)}
    /\ nextWrite' = nextWrite + 1
    /\ UNCHANGED <<smt_status, window_id, reads, errorTask, ownerCalls>>

\* Message::SetSmtResult(result) => ..., for the result of write task t
update_SetSmtResult_ClearsError(t) ==
    /\ is_toggling' = FALSE
    /\ IF t.result.tag = "Ok"
       THEN /\ reads' = reads \cup {NewRead(<<"write", t.id>>)}
            /\ error_message' = None
            /\ UNCHANGED <<errorTask, ownerCalls>>
       ELSE /\ error_message' = Some(ErrToString(t.result))
            /\ errorTask' = t.id
            /\ UNCHANGED ownerCalls
            /\ UNCHANGED reads
    /\ UNCHANGED <<smt_status, window_id>>
update_SetSmtResult(t) ==
    /\ is_toggling' = FALSE
    /\ IF t.result.tag = "Ok"
       THEN /\ reads' = reads \cup {NewRead(<<"write", t.id>>)}
            /\ UNCHANGED <<error_message, errorTask, ownerCalls>>
       ELSE /\ error_message' = Some(ErrToString(t.result))
            /\ errorTask' = t.id
            /\ UNCHANGED ownerCalls
            /\ UNCHANGED reads
    /\ UNCHANGED <<smt_status, window_id>>

\* Message::SmtStatusUpdated(status) => ...
update_SmtStatusUpdated_ReportsUnknown(status) ==
    /\ smt_status' = status
    /\ error_message' = IF status = "Unknown"
                        THEN Some("Failed to read SMT status")
                        ELSE error_message
    /\ UNCHANGED <<is_toggling, window_id, errorTask, ownerCalls>>
update_SmtStatusUpdated(status) ==
    /\ smt_status' = status
    /\ UNCHANGED <<is_toggling, error_message, window_id, errorTask,
                   ownerCalls>>

\* Message::RefreshStatus => ..., for the n-th tick
update_RefreshStatus_ClearsError(n) ==
    /\ reads' = reads \cup {NewRead(<<"tick", n>>)}
    /\ error_message' = None
    /\ UNCHANGED <<smt_status, is_toggling, window_id, errorTask, ownerCalls>>
update_RefreshStatus(n) ==
    /\ reads' = reads \cup {NewRead(<<"tick", n>>)}
    /\ UNCHANGED <<appVars, errorTask, ownerCalls>>

\* Message::WindowClosed(id) => ...
update_WindowClosed_KeepsId(id) ==
    /\ window_id' = window_id
    /\ UNCHANGED <<smt_status, is_toggling, error_message, reads, errorTask,
                   ownerCalls>>
update_WindowClosed(id) ==
    /\ window_id' = IF window_id = Some(id) THEN None ELSE window_id
    /\ UNCHANGED <<smt_status, is_toggling, error_message, reads, errorTask,
                   ownerCalls>>

\* Message::WindowOpened(id) => ...
update_WindowOpened_NoRefresh(id) ==
    /\ window_id' = Some(id)
    /\ UNCHANGED <<smt_status, is_toggling, error_message, reads, errorTask,
                   ownerCalls>>
update_WindowOpened(id) ==
    /\ window_id' = Some(id)
    /\ reads' = reads \cup {NewRead(<<"opened", id>>)}
    /\ UNCHANGED <<smt_status, is_toggling, error_message, errorTask,
                   ownerCalls>>

\* Message::TrayEvent(TrayEvent::ShowWindow) => ...
update_ShowWindow_AlwaysOpens ==
    /\ window_id' = Some(nextWindow)
    /\ opening' = opening \cup {nextWindow}
    /\ nextWindow' = nextWindow + 1
    /\ UNCHANGED <<smt_status, is_toggling, error_message, errorTask,
                   ownerCalls>>
update_ShowWindow ==
    /\ IF window_id # None
       THEN \* window::gain_focus(id)
            UNCHANGED <<window_id, opening, nextWindow>>
       ELSE \* window::open, and the identity it returns
            /\ window_id' = Some(nextWindow)
            /\ opening' = opening \cup {nextWindow}
            /\ nextWindow' = nextWindow + 1
    /\ UNCHANGED <<smt_status, is_toggling, error_message, errorTask,
                   ownerCalls>>

\* Message::TrayEvent(TrayEvent::Quit) => std::process::exit(0)
update_Quit_Returns ==
    /\ exited' = exited
    /\ UNCHANGED <<appVars, errorTask, ownerCalls>>
update_Quit ==
    /\ exited' = TRUE
    /\ UNCHANGED <<appVars, errorTask, ownerCalls>>

(***************************************************************************)
(* The messages the runtime hands to update, one action per message.       *)
(***************************************************************************)
\* the toggler of an open window is switched
SmtToggled ==
    /\ ~exited
    /\ openWindows # {}
    /\ OfferToggle(smt_status)
    /\ inputs < MaxInputs
    /\ inputs' = inputs + 1
    /\ update_SmtToggled(~is_enabled(smt_status))
    /\ UNCHANGED <<exited, file, winVars, trayVars, bridgeSeen, handledTray,
                   parseVars>>

\* write task t has returned and its result is handed to update
SetSmtResultOf(t) ==
    /\ t.pc = "done"
    /\ update_SetSmtResult(t)
    /\ writes' = writes \ {t}

SetSmtResult ==
    /\ ~exited
    /\ \E t \in writes : SetSmtResultOf(t)
    /\ UNCHANGED <<exited, file, winVars, trayVars, countVars, bridgeSeen,
                   handledTray, parseVars>>

\* read task r has returned and its result is handed to update
SmtStatusUpdatedOf(r) ==
    /\ r.result # "Pending"
    /\ update_SmtStatusUpdated(r.result)
    /\ reads' = reads \ {r}

SmtStatusUpdated ==
    /\ ~exited
    /\ \E r \in reads : SmtStatusUpdatedOf(r)
    /\ UNCHANGED <<exited, file, writes, winVars, trayVars, countVars,
                   bridgeSeen, handledTray, parseVars>>

\* App::subscription (app.rs:172-175): the 3 s timer exists while window_id
\* is Some
PollingActive_Always == TRUE
PollingActive == window_id # None

\* the 3 s timer fires
RefreshStatus ==
    /\ ~exited
    /\ PollingActive
    /\ inputs < MaxInputs
    /\ inputs' = inputs + 1
    /\ update_RefreshStatus(inputs + 1)
    /\ UNCHANGED <<exited, file, writes, winVars, trayVars, nextWrite,
                   bridgeSeen, handledTray, parseVars>>

\* window::close_events() reports a closed window
WindowClosed ==
    /\ ~exited
    /\ winq # <<>>
    /\ Head(winq).type = "WindowClosed"
    /\ update_WindowClosed(Head(winq).id)
    /\ winq' = Tail(winq)
    /\ UNCHANGED <<exited, file, writes, opening, openWindows, nextWindow,
                   trayVars, countVars, bridgeSeen, handledTray, parseVars>>

\* the open task of a window has completed
WindowOpened ==
    /\ ~exited
    /\ winq # <<>>
    /\ Head(winq).type = "WindowOpened"
    /\ update_WindowOpened(Head(winq).id)
    /\ winq' = Tail(winq)
    /\ UNCHANGED <<exited, file, writes, opening, openWindows, nextWindow,
                   trayVars, countVars, bridgeSeen, handledTray, parseVars>>

\* the 100 ms timer fires: gtk::main_iteration_do until no event is pending,
\* which runs the activation callbacks; each sends a MenuEvent
GtkTick ==
    /\ ~exited
    /\ menuChan' = menuChan \o gtkPending
    /\ gtkPending' = <<>>
    /\ UNCHANGED <<appVars, exited, file, writes, reads, winVars, trayChan,
                   countVars, errorTask, ownerCalls, bridgeSeen, handledTray,
                   parseVars>>

\* tray_event_stream (app.rs:235-255): try_recv on the channel, every 50 ms
TrayEvent_ShowWindow ==
    /\ ~exited
    /\ trayChan # <<>>
    /\ Head(trayChan) = "ShowWindow"
    /\ trayChan' = Tail(trayChan)
    /\ handledTray' = Append(handledTray, Head(trayChan))
    /\ update_ShowWindow
    /\ UNCHANGED <<exited, file, writes, reads, openWindows, winq,
                   gtkPending, menuChan, countVars, bridgeSeen, parseVars>>

TrayEvent_Quit ==
    /\ ~exited
    /\ trayChan # <<>>
    /\ Head(trayChan) = "Quit"
    /\ trayChan' = Tail(trayChan)
    /\ handledTray' = Append(handledTray, Head(trayChan))
    /\ update_Quit
    /\ UNCHANGED <<file, writes, reads, winVars, gtkPending, menuChan,
                   countVars, bridgeSeen, parseVars>>

(***************************************************************************)
(* The executor: the blocking calls spawn_blocking runs off the state      *)
(* machine's thread, one action per system call.                           *)
(***************************************************************************)
\* set_smt_enabled: fs::write(SMT_CONTROL_PATH, value)
SetSmt_Direct ==
    /\ ~exited
    /\ \E t \in writes, ok \in BOOLEAN :
        /\ t.pc = "direct"
        /\ writes' = Replace(writes, t, DirectStep(t, ok))
        /\ file' = IF ok THEN KernelValue(Token(t.enabled)) ELSE file
    /\ UNCHANGED <<appVars, exited, reads, winVars, trayVars, countVars,
                   errorTask, ownerCalls, bridgeSeen, handledTray, parseVars>>

\* set_smt_enabled: Command::new("pkexec").args(["tee", ..]).spawn()
SetSmt_Spawn ==
    /\ ~exited
    /\ \E t \in writes, ok \in BOOLEAN :
        /\ t.pc = "spawn"
        /\ writes' = Replace(writes, t, SpawnStep(t, ok))
    /\ UNCHANGED <<appVars, exited, file, reads, winVars, trayVars, countVars,
                   errorTask, ownerCalls, bridgeSeen, handledTray, parseVars>>

\* set_smt_enabled: stdin.write_all(value.as_bytes())
SetSmt_Feed ==
    /\ ~exited
    /\ \E t \in writes, ok \in BOOLEAN :
        /\ t.pc = "feed"
        /\ writes' = Replace(writes, t, FeedStep(t, ok))
    /\ UNCHANGED <<appVars, exited, file, reads, winVars, trayVars, countVars,
                   errorTask, ownerCalls, bridgeSeen, handledTray, parseVars>>

\* set_smt_enabled: child.wait(); tee has copied its input to the control
\* file when pkexec exits 0
SetSmt_Wait ==
    /\ ~exited
    /\ \E t \in writes, outcome \in {"exit0", "nonzero", "error"} :
        /\ t.pc = "wait"
        /\ writes' = Replace(writes, t, WaitStep(t, outcome))
        /\ file' = IF outcome = "exit0" /\ t.fed # <<>>
                   THEN KernelValue(t.fed[1])
                   ELSE file
    /\ UNCHANGED <<appVars, exited, reads, winVars, trayVars, countVars,
                   errorTask, ownerCalls, bridgeSeen, handledTray, parseVars>>

\* smt::read_smt_status().unwrap_or(SmtStatus::Unknown); a read that fails
\* is an input of the environment
ReadSmt ==
    /\ ~exited
    /\ \E r \in reads, ok \in BOOLEAN :
        /\ r.result = "Pending"
        /\ ok \/ inputs < MaxInputs
        /\ inputs' = IF ok THEN inputs ELSE inputs + 1
        /\ reads' = Replace(reads, r,
                            [r EXCEPT !.result = ReadStatusOrUnknown(ok, file),
                                      !.failed = ~ok])
    /\ UNCHANGED <<appVars, exited, file, writes, winVars, trayVars,
                   nextWrite, errorTask, ownerCalls, bridgeSeen, handledTray,
                   parseVars>>

(***************************************************************************)
(* The windowing runtime and the user.                                     *)
(***************************************************************************)
\* the runtime completes an open request: the window is on screen and the
\* open task yields its identity
OpenWindow ==
    /\ ~exited
    /\ \E id \in opening :
        /\ opening' = opening \ {id}
        /\ openWindows' = openWindows \cup {id}
        /\ winq' = Append(winq, [type |-> "WindowOpened", id |-> id])
    /\ UNCHANGED <<appVars, exited, file, writes, reads, nextWindow, trayVars,
                   countVars, errorTask, ownerCalls, bridgeSeen, handledTray,
                   parseVars>>

\* the user closes a window: the runtime destroys it and reports it closed
CloseWindow ==
    /\ ~exited
    /\ inputs < MaxInputs
    /\ \E id \in openWindows :
        /\ openWindows' = openWindows \ {id}
        /\ winq' = Append(winq, [type |-> "WindowClosed", id |-> id])
    /\ inputs' = inputs + 1
    /\ UNCHANGED <<appVars, exited, file, writes, reads, opening, nextWindow,
                   trayVars, nextWrite, errorTask, ownerCalls, bridgeSeen,
                   handledTray, parseVars>>

(***************************************************************************)
(* tray.rs: the menu and the bridge thread.                                *)
(***************************************************************************)
\* the identities of the two menu items, and one that belongs to neither
MenuIds == {"show_id", "quit_id", "other_id"}

\* the user activates a menu item
ActivateMenu ==
    /\ ~exited
    /\ inputs < MaxInputs
    /\ \E id \in MenuIds : gtkPending' = Append(gtkPending, id)
    /\ inputs' = inputs + 1
    /\ UNCHANGED <<appVars, exited, file, writes, reads, winVars, menuChan,
                   trayChan, nextWrite, errorTask, ownerCalls, bridgeSeen,
                   handledTray, parseVars>>

\* what the bridge thread sends for a menu event (tray.rs:44-48)
Bridge_ForwardsUnknown(id) ==
    IF id = "quit_id" THEN <<"Quit">> ELSE <<"ShowWindow">>
Bridge(id) ==
    IF id = "quit_id" THEN <<"Quit">>
    ELSE IF id = "show_id" THEN <<"ShowWindow">>
    ELSE <<>>

\* one iteration of the bridge thread's loop (tray.rs:42-50)
BridgeThread ==
    /\ ~exited
    /\ menuChan # <<>>
    /\ menuChan' = Tail(menuChan)
    /\ trayChan' = trayChan \o Bridge(Head(menuChan))
    /\ bridgeSeen' = Append(bridgeSeen, Head(menuChan))
    /\ UNCHANGED <<appVars, exited, file, writes, reads, winVars, gtkPending,
                   countVars, errorTask, ownerCalls, handledTray, parseVars>>

Next ==
    \/ SmtToggled
    \/ SetSmtResult
    \/ SmtStatusUpdated
    \/ RefreshStatus
    \/ WindowClosed
    \/ WindowOpened
    \/ GtkTick
    \/ TrayEvent_ShowWindow
    \/ TrayEvent_Quit
    \/ SetSmt_Direct
    \/ SetSmt_Spawn
    \/ SetSmt_Feed
    \/ SetSmt_Wait
    \/ ReadSmt
    \/ OpenWindow
    \/ CloseWindow
    \/ ActivateMenu
    \/ BridgeThread

Spec == Init /\ [][Next]_vars

(***************************************************************************)
(* The status parser on its own.  An input is drawn as a word, the set of  *)
(* its letters spelled in upper case, and the whitespace before and after. *)
(***************************************************************************)
Whitespace == {" ", "\n", "\t"}

UpperOf ==
    "o" :> "O" @@ "n" :> "N" @@ "f" :> "F" @@ "r" :> "R" @@ "c" :> "C" @@
    "e" :> "E" @@ "t" :> "T" @@ "s" :> "S" @@ "u" :> "U" @@ "p" :> "P" @@
    "d" :> "D" @@ "x" :> "X"

ToUpperChar(c) == IF c \in DOMAIN UpperOf THEN UpperOf[c] ELSE c

\* the four tokens of the control file
Tokens == {S_on, S_off, S_forceoff, S_notsupported}

\* the words inputs are built from: the tokens, and words that are none
Words ==
    Tokens \cup {<<>>, <<"x">>, <<"n", "o">>, <<"o", "n", "n">>,
                 <<"o", " ", "n">>, <<"o", "f">>}

Pads == UNION {[1..n -> Whitespace] : n \in 0..MaxPad}

ParserInputs ==
    UNION {{[word |-> w, upper |-> u, left |-> l, right |-> r] :
                u \in {x \in SUBSET (1..Len(w)) : Cardinality(x) <= MaxUpper},
                l \in Pads, r \in Pads} :
           w \in Words}

\* the string an input stands for
InputString(g) ==
    g.left
    \o [i \in 1..Len(g.word) |->
            IF i \in g.upper THEN ToUpperChar(g.word[i]) ELSE g.word[i]]
    \o g.right

InitParse ==
    /\ pin \in ParserInputs
    /\ pout = "none"
    /\ file = KernelValue(S_on)
    /\ smt_status = "Unknown"
    /\ is_toggling = FALSE
    /\ error_message = None
    /\ window_id = Some(FirstWindow)
    /\ exited = FALSE
    /\ writes = {}
    /\ reads = {}
    /\ opening = {FirstWindow}
    /\ openWindows = {}
    /\ winq = <<>>
    /\ nextWindow = FirstWindow + 1
    /\ gtkPending = <<>>
    /\ menuChan = <<>>
    /\ trayChan = <<>>
    /\ nextWrite = 1
    /\ inputs = 0
    /\ errorTask = 0
    /\ ownerCalls = {"read_smt_status"}
    /\ bridgeSeen = <<>>
    /\ handledTray = <<>>

\* SmtStatus::from(pin)
Parse ==
    /\ pout = "none"
    /\ pout' = From(InputString(pin))
    /\ UNCHANGED <<appVars, exited, file, writes, reads, winVars, trayVars,
                   countVars, errorTask, ownerCalls, bridgeSeen, handledTray,
                   pin>>

ParseSpec == InitParse /\ [][Parse]_vars

(***************************************************************************)
(* Fairness: the windowing runtime completes the open requests it is       *)
(* given, the runtime hands the window notifications and the results of    *)
(* read tasks it holds to update, and the executor runs the read tasks,    *)
(* whose file read returns.  Nothing obliges the user to act, the 3 s      *)
(* timer to fire within the run, or the helper process of a write to exit  *)
(* (it may wait for a password for ever).                                  *)
(***************************************************************************)
Fairness ==
    /\ WF_vars(OpenWindow)
    /\ WF_vars(WindowOpened)
    /\ WF_vars(WindowClosed)
    /\ WF_vars(ReadSmt)
    /\ WF_vars(SmtStatusUpdated)

FairSpec == Spec /\ Fairness

(***************************************************************************)
(* Fairness of the tray chain: the 100 ms timer keeps firing and its       *)
(* GtkTick is handled (app.rs:168), the bridge thread keeps running its    *)
(* loop (tray.rs:42), and the 50 ms poll of tray_event_stream keeps        *)
(* handing what it receives to update (app.rs:238-252).                    *)
(***************************************************************************)
TrayFairness ==
    /\ WF_vars(GtkTick)
    /\ WF_vars(BridgeThread)
    /\ WF_vars(TrayEvent_ShowWindow)
    /\ WF_vars(TrayEvent_Quit)

TrayFairSpec == Spec /\ TrayFairness

(***************************************************************************)
(* Properties.                                                             *)
(***************************************************************************)
\* the write tasks that a step dispatches
Dispatched == writes' \ writes

\* C1: from every reachable state, handling SmtToggled(enabled) leaves
\* is_toggling = true and error_message = None and dispatches exactly one
\* write task, which carries that enabled value and has not run yet; no read
\* task is dispatched and none of the earlier write tasks is touched.
C1_ToggleEffect ==
    [][\A enabled \in BOOLEAN :
          (SmtToggled /\ enabled = ~is_enabled(smt_status))
          => /\ is_toggling' = TRUE
             /\ error_message' = None
             /\ writes \subseteq writes'
             /\ Cardinality(Dispatched) = 1
             /\ \A t \in Dispatched :
                   t.enabled = enabled /\ t.pc = "direct" /\ t.wrote = <<>>
             /\ reads' = reads]_vars

\* C1's case: a toggle has just been handled in a state that showed the
\* error of an earlier write; the error is gone and the new write has not run.
C1_Witness ==
    /\ errorTask # 0
    /\ error_message = None
    /\ is_toggling
    /\ \E t \in writes : t.pc = "direct" /\ t.id > errorTask

\* C2: handling a write completion sets is_toggling to false for Ok and for
\* Err; on Err error_message becomes Some(the error's message), on Ok it
\* keeps the value it had (whether or not is_toggling was true before).
C2_CompletionEffect ==
    [][\A t \in writes :
          SetSmtResultOf(t)
          => /\ is_toggling' = FALSE
             /\ t.result.tag = "Err" => error_message' = Some(t.result.msg)
             /\ t.result.tag = "Ok" => error_message' = error_message]_vars

\* C2's case: the failure of a write has been handled while no other write
\* is left: the flag is down and the helper's message is shown.
C2_Witness ==
    /\ writes = {}
    /\ ~is_toggling
    /\ errorTask # 0
    /\ error_message = Some(PkexecFailed.msg)

\* C3: in one call of set_smt_enabled there is one direct write; if it
\* succeeded the call is over with Ok and no helper was spawned or fed; if it
\* failed the helper is spawned once, and what it is fed, once at most, is
\* the token given to the direct write; a call that has returned has made
\* one direct write and one spawn at most.
C3_EscalationOrder ==
    \A t \in writes :
        /\ Len(t.wrote) <= 1 /\ t.nSpawn <= 1 /\ Len(t.fed) <= 1
        /\ t.pc = "direct" <=> t.wrote = <<>>
        /\ t.wrote # <<>> => t.wrote[1] = Token(t.enabled)
        /\ (t.wrote # <<>> /\ t.directOk)
           => t.pc = "done" /\ t.result = Ok /\ t.nSpawn = 0 /\ t.fed = <<>>
        /\ (t.wrote # <<>> /\ ~t.directOk)
           => /\ t.pc = "spawn" <=> t.nSpawn = 0
              /\ t.pc = "wait" => t.fed = t.wrote
              /\ t.fed # <<>> => t.fed = t.wrote
              /\ (t.pc = "done" /\ t.result = Ok) => t.fed = t.wrote

\* C3's case: a call whose direct write failed has returned Ok through the
\* helper, spawned once and fed the token.
C3_Witness ==
    \E t \in writes :
        /\ t.pc = "done" /\ t.result = Ok /\ ~t.directOk
        /\ t.nSpawn = 1 /\ t.fed = <<Token(t.enabled)>>

\* C4: a call of set_smt_enabled that reached the escalation step and did
\* not return Ok returned an error of kind PermissionDenied that carries the
\* explanation.
C4_HelperFailureIsPermissionDenied ==
    \A t \in writes :
        (t.pc = "done" /\ t.nSpawn > 0 /\ t.result # Ok)
        => t.result = PkexecFailed

\* the reference mapping of C5 on a normalized token
Reference(word) ==
    CASE word = <<"o", "n">>                     -> "On"
      [] word = <<"o", "f", "f">>                -> "Off"
      [] word = S_forceoff                       -> "ForceOff"
      [] word = S_notsupported                   -> "NotSupported"
      [] OTHER                                   -> "Unknown"

\* the input spells its word as drawn: no letter of it is in upper case
SpelledLower(g) == InputString(g) = g.left \o g.word \o g.right

\* C5 as claimed: the parser returns one of the five variants, the one the
\* reference mapping gives for the input with its case and its surrounding
\* whitespace normalized.
C5_CaseInsensitive ==
    pout # "none" => pout \in SmtStatus /\ pout = Reference(pin.word)

\* C5 as amended: the parser returns one of the five variants; it is the one
\* the reference mapping gives for the input with its surrounding whitespace
\* removed, compared case-sensitively: Unknown as soon as a letter is in
\* upper case.
C5_CaseSensitive ==
    pout # "none"
    => /\ pout \in SmtStatus
       /\ pout = IF SpelledLower(pin) THEN Reference(pin.word) ELSE "Unknown"

\* C5's case: a token in lower case with whitespace on both sides is parsed.
C5_Witness ==
    /\ pout = "ForceOff"
    /\ pin.left # <<>>
    /\ pin.right # <<>>

\* C6: is_controllable holds exactly of On and Off, the view offers the
\* toggle exactly when is_controllable(smt_status), and every SmtToggled is
\* produced in a state whose smt_status is On or Off.
C6_ToggleOnlyWhenControllable ==
    [][/\ \A s \in SmtStatus : is_controllable(s) <=> s \in {"On", "Off"}
       /\ \A s \in SmtStatus : OfferToggle(s) <=> is_controllable(s)
       /\ SmtToggled => smt_status \in {"On", "Off"}]_vars

\* C6's case: a toggle was produced (its write task is there) and the status
\* has since become one that offers no toggle.
C6_Witness ==
    /\ writes # {}
    /\ openWindows # {}
    /\ ~is_controllable(smt_status)

\* C7: is_toggling is true whenever a write task dispatched by SmtToggled
\* has not had its SetSmtResult handled.
C7_PendingWhileWriteInFlight == writes # {} => is_toggling

\* C8: a failure message is set only from the write of the latest
\* SmtToggled, and the completion of a write leaves is_toggling alone while
\* a write dispatched after it is in flight.
C8_NoCrossTalk ==
    [][\A t \in writes :
          SetSmtResultOf(t)
          => /\ t.result.tag = "Err" => t.id = nextWrite - 1
             /\ (\E u \in writes : u.id > t.id)
                => is_toggling' = is_toggling]_vars

\* C9: handling SetSmtResult(Ok) dispatches exactly one read task and leaves
\* is_toggling = false and error_message = None; handling SetSmtResult(Err)
\* dispatches no task and leaves smt_status unchanged.
C9_ReadIffOk ==
    [][\A t \in writes :
          SetSmtResultOf(t)
          => /\ Dispatched = {}
             /\ t.result.tag = "Ok"
                => /\ reads \subseteq reads'
                   /\ reads' \ reads = {NewRead(<<"write", t.id>>)}
                   /\ is_toggling' = FALSE
                   /\ error_message' = None
             /\ t.result.tag = "Err"
                => reads' = reads /\ smt_status' = smt_status]_vars

\* the identities windows can have in a run
WindowIds == FirstWindow..(FirstWindow + MaxInputs)

OpenedRead(id) == NewRead(<<"opened", id>>)

\* no open request is in progress, no WindowOpened waits to be handled and
\* no read dispatched by WindowOpened waits to be run or delivered
OpenSettled ==
    /\ opening = {}
    /\ \A i \in 1..Len(winq) : winq[i].type # "WindowOpened"
    /\ \A r \in reads : r.origin[1] # "opened"

\* C10: handling ShowWindow while window_id is None dispatches a
\* window-open task; handling WindowOpened(id) dispatches a status read in
\* that step; and every open task leads to its WindowOpened being handled and
\* the read of that step to its SmtStatusUpdated being handled, with no
\* fairness of the 3 s timer, unless the process exits first.
C10_OpenThenRefresh ==
    /\ [][(TrayEvent_ShowWindow /\ window_id = None)
          => /\ opening' = opening \cup {nextWindow}
             /\ nextWindow \notin opening
             /\ window_id' = Some(nextWindow)]_vars
    /\ [][WindowOpened
          => /\ reads' = reads \cup {OpenedRead(Head(winq).id)}
             /\ OpenedRead(Head(winq).id) \notin reads
             /\ smt_status' = smt_status]_vars
    /\ [][\A r \in reads :
             (r.origin[1] = "opened" /\ r \notin reads')
             => \/ SmtStatusUpdatedOf(r)
                \/ (ReadSmt /\ \E q \in reads' : q.origin = r.origin)]_vars
    /\ ~OpenSettled ~> (exited \/ OpenSettled)

\* C10's case: a window requested by ShowWindow has been confirmed open, and
\* the read dispatched with it is in flight; no tick has fired.
C10_Witness ==
    \E id \in WindowIds :
        /\ id # FirstWindow
        /\ window_id = Some(id)
        /\ OpenedRead(id) \in reads
        /\ \A r \in reads : r.origin[1] # "tick"

\* the elements of a sequence
Range(q) == {q[i] : i \in 1..Len(q)}

\* the Quit item has been activated and its event is on its way to update
QuitRequested ==
    \/ "quit_id" \in Range(gtkPending)
    \/ "quit_id" \in Range(menuChan)
    \/ "Quit" \in Range(trayChan)

\* C11: the bridge thread sends Quit for an activation of the Quit item,
\* handling Quit terminates the process, while the process runs every stage
\* of the path that holds an event can take its step whatever the state of
\* the application is, and an activation of the Quit item leads to the end
\* of the process.
C11_QuitPath ==
    /\ [][(BridgeThread /\ Head(menuChan) = "quit_id")
          => trayChan' = Append(trayChan, "Quit")]_vars
    /\ [][TrayEvent_Quit => exited' /\ ~exited]_vars
    /\ [](~exited
          => /\ gtkPending # <<>> => ENABLED <<GtkTick>>_vars
             /\ menuChan # <<>> => ENABLED BridgeThread
             /\ trayChan # <<>>
                => ENABLED (TrayEvent_ShowWindow \/ TrayEvent_Quit))
    /\ QuitRequested ~> exited

\* C11's case: Quit has ended the process while a write was in flight.
C11_Witness ==
    /\ exited
    /\ is_toggling
    /\ \E t \in writes : t.pc # "done"

\* C12: a read task that failed delivers Unknown; handling what it delivers
\* sets smt_status to Unknown and leaves error_message and is_toggling as
\* they were; running a read task changes nothing of the application state;
\* and while smt_status is Unknown no toggle is offered, so no SmtToggled
\* can be produced.
C12_ReadFailureIsUnknown ==
    /\ [](\A r \in reads : r.failed => r.result = "Unknown")
    /\ [][ReadSmt => UNCHANGED <<appVars, errorTask>>]_vars
    /\ [][\A r \in reads :
             (SmtStatusUpdatedOf(r) /\ r.failed)
             => /\ smt_status' = "Unknown"
                /\ error_message' = error_message
                /\ is_toggling' = is_toggling]_vars
    /\ [](smt_status = "Unknown"
          => ~OfferToggle(smt_status) /\ ~ENABLED SmtToggled)

\* C12's case: after a toggle, made while the status was On or Off, a read
\* failed and its Unknown was handled: no error is shown, the write is still
\* pending and the window is open.
C12_Witness ==
    /\ smt_status = "Unknown"
    /\ nextWrite > 1
    /\ is_toggling
    /\ error_message = None
    /\ openWindows # {}

\* C13: a step that takes error_message from Some to None is the handling
\* of SmtToggled; handling SmtStatusUpdated, RefreshStatus, SetSmtResult(Ok),
\* WindowOpened, WindowClosed, GtkTick or TrayEvent::ShowWindow leaves
\* error_message as it was.
C13_ErrorClearedOnlyByToggle ==
    /\ [][(error_message # None /\ error_message' = None) => SmtToggled]_vars
    /\ [][(\/ SmtStatusUpdated
           \/ RefreshStatus
           \/ \E t \in writes : SetSmtResultOf(t) /\ t.result.tag = "Ok"
           \/ WindowOpened
           \/ WindowClosed
           \/ GtkTick
           \/ TrayEvent_ShowWindow)
          => error_message' = error_message]_vars

\* C13's case: an error is shown, no write is left, and a periodic read has
\* succeeded and waits to be handled.
C13_Witness ==
    /\ error_message # None
    /\ writes = {}
    /\ \E r \in reads :
          r.origin[1] = "tick" /\ r.result \in SmtStatus /\ ~r.failed

\* a notification of the runtime that update has not handled yet
InWinq(type, id) ==
    \E i \in 1..Len(winq) : winq[i] = [type |-> type, id |-> id]

\* an open request was made for id and its WindowOpened(id) has been handled
ConfirmedOpen(id) ==
    /\ id < nextWindow
    /\ id \notin opening
    /\ ~InWinq("WindowOpened", id)

\* no WindowClosed(id) has been handled
CloseNotHandled(id) ==
    id \in opening \/ id \in openWindows \/ InWinq("WindowClosed", id)

\* what handling WindowClosed does, as C14 states it
ClosedEffect ==
    WindowClosed
    => IF window_id = Some(Head(winq).id)
       THEN /\ window_id' = None
            /\ UNCHANGED <<smt_status, is_toggling, error_message, reads,
                           writes>>
       ELSE UNCHANGED <<appVars, reads, writes>>

PeriodicReads ==
    {r \in reads' : /\ r.origin[1] = "tick"
                    /\ \A q \in reads : q.origin # r.origin}

C16_NoBlockingCallOnOwner == ownerCalls = {}

\* the mapping of C17: Show to ShowWindow, Quit to Quit, any other identity
\* dropped, over a sequence of menu activations
RECURSIVE Mapped(_)
Mapped(ids) ==
    IF ids = <<>> THEN <<>>
    ELSE (CASE Head(ids) = "show_id" -> <<"ShowWindow">>
            [] Head(ids) = "quit_id" -> <<"Quit">>
            [] OTHER                 -> <<>>)
         \o Mapped(Tail(ids))

\* C17: the tray events update has handled, followed by those sent and not
\* polled yet, are the mapped menu activations the bridge thread has seen,
\* in order; the bridge thread can always take its step when a menu event
\* waits, whatever the consumer does; and update catches up with the events
\* sent unless the process exits.
C17_TrayEventsInOrder ==
    /\ [](handledTray \o trayChan = Mapped(bridgeSeen))
    /\ []((~exited /\ menuChan # <<>>) => ENABLED BridgeThread)
    /\ (handledTray # Mapped(bridgeSeen))
          ~> (exited \/ handledTray = Mapped(bridgeSeen))

\* C17's case: the bridge thread has seen an identity of neither item and
\* then Show; update has handled the one ShowWindow.
C17_Witness ==
    /\ bridgeSeen = <<"other_id", "show_id">>
    /\ handledTray = <<"ShowWindow">>
    /\ trayChan = <<>>

\* C18: at most one window is on screen or being opened; handling
\* ShowWindow requests one window when window_id is None, and requests none
\* and leaves window_id as it is (it only focuses) otherwise.
C18_AtMostOneWindow ==
    /\ [](Cardinality(opening \cup openWindows) <= 1)
    /\ [][TrayEvent_ShowWindow
          => IF window_id = None
             THEN /\ opening' = opening \cup {nextWindow}
                  /\ nextWindow \notin opening \cup openWindows
                  /\ opening \cup openWindows = {}
             ELSE UNCHANGED <<window_id, opening, openWindows, nextWindow>>]_vars

\* C18's case: two ShowWindow events were handled before the first window
\* was confirmed open; its open request is still the only one.
C18_Witness ==
    /\ handledTray = <<"ShowWindow", "ShowWindow">>
    /\ opening = {FirstWindow}
    /\ openWindows = {}
    /\ nextWindow = FirstWindow + 1

\* C19: in the state right after update handles ShowWindow a window is on
\* screen or its open request is in progress.
C19_ShowWindowShows ==
    [][TrayEvent_ShowWindow => (opening' \cup openWindows') # {}]_vars

\* every task dispatched has completed and had its event handled
Quiescent == writes = {} /\ reads = {}

\* C20: once a toggle has been made and every write and read task has
\* completed and been handled, the status shown is the one parsed from the
\* control file as it is, unless the read last handled failed (Unknown).
\* Only set_smt_enabled changes the file.
C20_NotStale ==
    (Quiescent /\ nextWrite > 1 /\ smt_status # "Unknown")
    => smt_status = From(file)
====
